---- MODULE Spec2Model ----
(***************************************************************************)
(* Model of the two singleton services of wasm-summarizer-poc              *)
(* (LLMService, CommandService), the shared static PerformanceMonitor, the *)
(* SimpleTokenizer and the command output guardrail.                       *)
(*                                                                         *)
(* JavaScript runs the body of an async function synchronously up to its   *)
(* first await and between two awaits, so every action below is one such   *)
(* synchronous segment of a handler.  The inference runtime (pipeline      *)
(* construction, pipeline invocation, progress reports) and the host clock *)
(* are the environment: their outcomes are drawn from small sets.          *)
(*                                                                         *)
(* The two services share no state but the static PerformanceMonitor, so   *)
(* the state is that of one service instance (service says which class it  *)
(* is) and the other service appears as the measurements it starts on the  *)
(* shared monitor.                                                         *)
(***************************************************************************)
EXTENDS Integers, Sequences, FiniteSets, TLC

(* ------------------------------ bounds -------------------------------- *)

\* async calls of the service (loads and inferences together) in flight
MaxInFlight == 2

\* largest value of the host clock performance.now()
MaxTime == 1

\* lines in a raw model output
MaxLines == 4

\* characters in a text given to the tokenizer
MaxTextLen == 7

\* largest maxTokens given to truncateText
MaxTruncateTokens == 2

\* largest token count and largest time in ms given to calculateTokensPerSecond,
\* besides the documented 100 and 1000
MaxTokenCount == 5

MaxMillis == 5

\* largest clock value and largest heap size seen by the PerformanceMonitor
\* taken alone
MaxClock == 3

MaxHeap == 2

\* characters by which the longest text given to summarize exceeds the input
\* limit of INPUT_MAX * 4 characters
MaxExcessChars == 2

(* ----------------------------- constants ------------------------------ *)

Services == {"llm", "cmd"}

\* JavaScript null (model reference, status.error)
Null == "null"

CommandModel == "onnx-community/Qwen2.5-Coder-0.5B-Instruct"

\* modelsToTry of each loadModel
ModelsToTry(s) ==
  IF s = "llm"
    THEN <<"Xenova/t5-small", "Xenova/distilgpt2", "Xenova/gpt2">>
    ELSE <<CommandModel>>

\* what the callers pass as modelKey: useLLM passes a key of AVAILABLE_MODELS
\* (DEFAULT_MODEL when omitted); CommandService.loadModel takes no key and
\* compares with its fixed model identifier
CallerKeys(s) ==
  IF s = "llm" THEN {"phi-3-mini", "phi-2"} ELSE {CommandModel}

\* values the runtime hands to progress_callback as progress.progress, in
\* thousandths (505 is 0.505)
ProgressReports == {0, 505}

\* errors a pipeline construction for candidate c can raise
PipelineErrors(c) ==
  IF c = "Xenova/gpt2"
    THEN { [name |-> "Error", message |-> "Could not locate file: " \o c],
           [name |-> "TypeError", message |-> "Failed to fetch"] }
    ELSE { [name |-> "Error", message |-> "Could not locate file: " \o c] }

\* errors a pipeline invocation can raise
InferenceErrors == { [name |-> "Error", message |-> "OrtRun failed"] }

NoModelLoadedError ==
  [name |-> "Error", message |-> "No model loaded. Please load a model first."]

\* thrown after the loop when no candidate produced a pipeline
NoModelError(s) ==
  [name |-> "Error",
   message |-> IF s = "llm" THEN "Failed to load any summarization model"
                            ELSE "Failed to load any command generation model"]

UndefinedResultError ==
  [name |-> "TypeError", message |-> "Cannot read properties of undefined (reading '0')"]

\* String(error) of an Error object: "<name>: <message>"
ErrorToString(e) == e.name \o ": " \o e.message

\* Math.round(x * 100) for x given in thousandths: nearest integer, ties up
MathRound100(pm) == (pm + 5) \div 10

InitialStatus == [loaded |-> FALSE, loading |-> FALSE, error |-> Null, progress |-> 0]

LoadingStatus == [loaded |-> FALSE, loading |-> TRUE, error |-> Null, progress |-> 0]

LoadedStatus == [loaded |-> TRUE, loading |-> FALSE, error |-> Null, progress |-> 100]

ErrorStatus(e) ==
  [loaded |-> FALSE, loading |-> FALSE, error |-> ErrorToString(e), progress |-> 0]

UnloadedStatus == [loaded |-> FALSE, loading |-> FALSE, error |-> Null, progress |-> 0]

(* ------------------------------- state -------------------------------- *)

VARIABLES
  service,        \* which singleton this is: "llm" (LLMService) or "cmd" (CommandService)
  heldPipeline,   \* this.summarizer / this.generator: Null or the pipeline of a candidate
  currentModel,   \* this.currentModel: "" or a candidate identifier
  status,         \* this.status
  loads,          \* loadModel calls awaiting a pipeline construction, oldest first
  infers,         \* inference calls awaiting their pipeline, oldest first
  startTime,      \* PerformanceMonitor.startTime (static, shared by both services)
  memoryBefore,   \* PerformanceMonitor.memoryBefore (static, shared by both services)
  now,            \* the host clock performance.now()
  memory,         \* the host's performance.memory: present or not, usedJSHeapSize
  event,          \* history: the handler segment that ran last and its outcome
  heldKey,        \* history: the modelKey of the call that loaded the held model
  everLoaded,     \* history: some loadModel of the service has succeeded
  unloadedSince,  \* history: unloadModel dropped a model and no load succeeded since
  pure            \* the call of a pure function under study: argument and result

vars == <<service, heldPipeline, currentModel, status, loads, infers, startTime, memoryBefore,
          now, memory, event, heldKey, everLoaded, unloadedSince, pure>>

\* a host without performance.memory (it is a non-standard API)
NoPerformanceMemory == [present |-> FALSE, usedJSHeapSize |-> 0]

InFlight == Len(loads) + Len(infers)

\* a sequence without its i-th element
RemoveAt(q, i) == SubSeq(q, 1, i - 1) \o SubSeq(q, i + 1, Len(q))

Init ==
  /\ service \in Services
  /\ heldPipeline = Null
  /\ currentModel = ""
  /\ status = InitialStatus
  /\ loads = <<>>
  /\ infers = <<>>
  /\ startTime = 0
  /\ memoryBefore = 0
  /\ now = 0
  /\ memory = NoPerformanceMemory
  /\ event = [op |-> "init"]
  /\ heldKey = Null
  /\ everLoaded = FALSE
  /\ unloadedSince = FALSE
  /\ pure = [fn |-> "none"]

(* ----------------------- PerformanceMonitor --------------------------- *)

\* performance.now() advances
Tick ==
  /\ now < MaxTime
  /\ now' = now + 1
  /\ event' = [op |-> "tick"]
  /\ UNCHANGED <<pure, service, heldPipeline, currentModel, status, loads, infers,
                 startTime, memoryBefore, memory, heldKey, everLoaded, unloadedSince>>

\* getMemoryUsage: usedJSHeapSize if 'memory' in performance, else 0
GetMemoryUsage == IF memory.present THEN memory.usedJSHeapSize ELSE 0

StartMeasurementOnce == IF startTime = 0 THEN now ELSE startTime

\* startMeasurement: this.startTime = performance.now()
StartMeasurement == now

\* endMeasurement: inferenceTime = performance.now() - this.startTime,
\* memoryUsage = getMemoryUsage() - this.memoryBefore
EndMeasurement ==
  [loadTime |-> 0, inferenceTime |-> now - startTime,
   memoryUsage |-> GetMemoryUsage - memoryBefore]

\* the other service starts a load or an inference: startMeasurement on the
\* shared static monitor
OtherServiceMeasures ==
  /\ startTime' = StartMeasurement
  /\ memoryBefore' = GetMemoryUsage
  /\ event' = [op |-> "otherService"]
  /\ UNCHANGED <<pure, service, heldPipeline, currentModel, status, loads, infers,
                 now, memory, heldKey, everLoaded, unloadedSince>>

(* ----------------------------- loadModel ------------------------------ *)

\* the early return: a model is held and currentModel equals the requested key
AlreadyLoaded(key) == heldPipeline # Null /\ currentModel = key

\* first segment of loadModel, up to the await of the first candidate
ServiceLoadModel(key) ==
  IF AlreadyLoaded(key)
    THEN /\ event' = [op |-> "loadModel", key |-> key, outcome |-> "noop"]
         /\ UNCHANGED <<service, heldPipeline, currentModel, status, loads,
                        infers, startTime, memoryBefore, now, memory, heldKey, everLoaded, unloadedSince>>
    ELSE /\ InFlight < MaxInFlight
         /\ status' = LoadingStatus
         /\ startTime' = StartMeasurement
         /\ memoryBefore' = GetMemoryUsage
         /\ loads' = Append(loads, [key |-> key, idx |-> 1,
                                    tried |-> <<ModelsToTry(service)[1]>>,
                                    errs |-> <<>>])
         /\ event' = [op |-> "loadModel", key |-> key, outcome |-> "started"]
         /\ UNCHANGED <<service, heldPipeline, currentModel, infers, now, memory,
                        heldKey, everLoaded, unloadedSince>>

\* the same segment when nothing else shares the step
LoadModel(key) == ServiceLoadModel(key) /\ UNCHANGED pure

LoopNextSkips(idx) == idx + 2

\* for (const model of modelsToTry): the position after position idx
LoopNext(idx) == idx + 1

\* progress_callback: this.status.progress = Math.round(progress.progress * 100)
ProgressCallback(i, pm) ==
  /\ i \in 1..Len(loads)
  /\ status' = [status EXCEPT !.progress = MathRound100(pm)]
  /\ event' = [op |-> "progress"]
  /\ UNCHANGED <<pure, service, heldPipeline, currentModel, loads, infers, startTime, memoryBefore,
                 now, memory, heldKey, everLoaded, unloadedSince>>

\* the awaited pipeline construction of load call i resolves: break, store the
\* pipeline, end the measurement, record the candidate, set the status
ServicePipelineResolved(i) ==
  /\ i \in 1..Len(loads)
  /\ LET call == loads[i]
         model == ModelsToTry(service)[call.idx]
     IN /\ heldPipeline' = model
        /\ currentModel' = model
        /\ status' = LoadedStatus
        /\ loads' = RemoveAt(loads, i)
        /\ event' = [op |-> "loadDone", key |-> call.key, outcome |-> "ok",
                     model |-> model, tried |-> call.tried, errs |-> call.errs]
        /\ heldKey' = call.key
        /\ everLoaded' = TRUE
        /\ unloadedSince' = FALSE
  /\ UNCHANGED <<service, infers, startTime, memoryBefore, now, memory>>

\* the same segment when nothing else shares the step
PipelineResolved(i) == ServicePipelineResolved(i) /\ UNCHANGED pure

IsLastCandidateOffByOne(model) == model = ModelsToTry(service)[1]

\* model === modelsToTry[modelsToTry.length - 1]
IsLastCandidate(model) == model = ModelsToTry(service)[Len(ModelsToTry(service))]

\* the awaited pipeline construction of load call i raises e: the last
\* candidate's error goes to the outer catch (status, rethrow); any other is
\* logged and the loop awaits the next candidate, or, the list exhausted with
\* no pipeline, throws the error of line 82 / 76 to the outer catch
ServicePipelineRejected(i, e) ==
  /\ i \in 1..Len(loads)
  /\ LET call == loads[i]
         model == ModelsToTry(service)[call.idx]
         next == LoopNext(call.idx)
     IN /\ e \in PipelineErrors(model)
        /\ IF IsLastCandidate(model) \/ next > Len(ModelsToTry(service))
             THEN LET raised == IF IsLastCandidate(model) THEN e
                                ELSE NoModelError(service)
                  IN /\ status' = ErrorStatus(raised)
                     /\ loads' = RemoveAt(loads, i)
                     /\ event' = [op |-> "loadDone", key |-> call.key,
                                  outcome |-> "raised", raised |-> raised,
                                  tried |-> call.tried,
                                  errs |-> Append(call.errs, e)]
             ELSE /\ loads' = [loads EXCEPT ![i] =
                                 [key |-> call.key, idx |-> next,
                                  tried |-> Append(call.tried, ModelsToTry(service)[next]),
                                  errs |-> Append(call.errs, e)]]
                  /\ event' = [op |-> "loadRetry"]
                  /\ UNCHANGED status
  /\ UNCHANGED <<service, heldPipeline, currentModel, infers, startTime, memoryBefore, now, memory,
                 heldKey, everLoaded, unloadedSince>>

\* the same segment when nothing else shares the step
PipelineRejected(i, e) == ServicePipelineRejected(i, e) /\ UNCHANGED pure

(* ---------------------------- unloadModel ----------------------------- *)

\* if (this.summarizer) / if (this.generator)
HoldsModel == heldPipeline # Null

DroppedPipelineKept == heldPipeline

\* this.summarizer = null / this.generator = null
DroppedPipeline == Null

LoadsAfterUnloadAborted == <<>>

\* unloadModel has no statement on a loadModel call that is awaiting its
\* pipeline: the calls stay in flight
LoadsAfterUnload == loads

ClearedModelNameKept == currentModel

\* this.currentModel = ''
ClearedModelName == ""

UnloadModel ==
  /\ IF HoldsModel
       THEN /\ heldPipeline' = DroppedPipeline
            /\ currentModel' = ClearedModelName
            /\ status' = UnloadedStatus
            /\ heldKey' = Null
            /\ unloadedSince' = TRUE
       ELSE UNCHANGED <<heldPipeline, currentModel, status, heldKey, unloadedSince>>
  /\ loads' = LoadsAfterUnload
  /\ event' = [op |-> "unloadModel"]
  /\ UNCHANGED <<pure, service, infers, startTime, memoryBefore, now, memory, everLoaded>>

(* ------------------- summarize / generateCommands --------------------- *)

NoModelLoadedByStatus == ~status.loaded /\ ~status.loading

\* if (!this.summarizer) / if (!this.generator)
NoModelLoaded == heldPipeline = Null

\* the pre-call branch that invokes the pipeline: summarize invokes it in both
\* branches, generateCommands only if currentModel includes 'Qwen'
InvokesPipeline == service = "llm" \/ currentModel = CommandModel

\* first segment of summarize / generateCommands, up to the await of the pipeline
ServiceInfer ==
  IF NoModelLoaded
    THEN /\ event' = [op |-> "infer", outcome |-> "raised",
                      raised |-> NoModelLoadedError]
         /\ UNCHANGED <<service, heldPipeline, currentModel, status, loads,
                        infers, startTime, memoryBefore, now, memory, heldKey, everLoaded, unloadedSince>>
    ELSE /\ InFlight < MaxInFlight
         /\ startTime' = StartMeasurement
         /\ memoryBefore' = GetMemoryUsage
         /\ IF InvokesPipeline
              THEN /\ infers' = Append(infers, [pipe |-> heldPipeline,
                                                 startedAt |-> now])
                   /\ event' = [op |-> "infer", outcome |-> "invoked"]
              ELSE /\ event' = [op |-> "infer", outcome |-> "raised",
                                raised |-> UndefinedResultError]
                   /\ UNCHANGED infers
         /\ UNCHANGED <<service, heldPipeline, currentModel, status, loads, now, memory,
                        heldKey, everLoaded, unloadedSince>>

\* the same segment when nothing else shares the step
Infer == ServiceInfer /\ UNCHANGED pure

\* model.includes('t5') for a candidate identifier or ''
IncludesT5(model) == model = "Xenova/t5-small"

PipelineTypeAlwaysGeneration(model) == "text-generation"

\* const pipelineType = model.includes('t5') ? 'summarization' : 'text-generation'
PipelineType(model) ==
  IF IncludesT5(model) THEN "summarization" ELSE "text-generation"

\* the field of result[0] that carries the text: a summarization pipeline
\* returns summary_text, a text-generation pipeline generated_text
ResultField(pipe) ==
  IF PipelineType(pipe) = "summarization" THEN "summary_text" ELSE "generated_text"

\* the field the post-processing reads: summarize reads summary_text when
\* currentModel includes 't5' and generated_text otherwise; generateCommands
\* reads generated_text in both branches
FieldRead ==
  IF service = "llm" /\ IncludesT5(currentModel)
    THEN "summary_text" ELSE "generated_text"

\* reading the missing field gives undefined: estimateTokens(undefined) or
\* undefined.replace(...) raises a TypeError
PostProcessingError(field) ==
  [name |-> "TypeError",
   message |-> IF field = "summary_text"
                 THEN "Cannot read properties of undefined (reading 'length')"
                 ELSE "Cannot read properties of undefined (reading 'replace')"]

RethrownWrapped(e) == [name |-> "Error", message |-> ErrorToString(e)]

\* catch (error) { console.error(...); throw error; }
Rethrown(e) == e

\* the awaited pipeline invocation of inference call j returns: endMeasurement,
\* post-processing, metrics, response; a failing post-processing goes to the
\* catch
ServiceInferResolved(j) ==
  /\ j \in 1..Len(infers)
  /\ infers' = RemoveAt(infers, j)
  /\ IF ResultField(infers[j].pipe) = FieldRead
       THEN event' = [op |-> "inferDone", outcome |-> "ok",
                      metrics |-> EndMeasurement,
                      startedAt |-> infers[j].startedAt]
       ELSE event' = [op |-> "inferDone", outcome |-> "raised",
                      by |-> "post-processing",
                      thrown |-> PostProcessingError(FieldRead),
                      raised |-> Rethrown(PostProcessingError(FieldRead))]
  /\ UNCHANGED <<service, heldPipeline, currentModel, status, loads, startTime, memoryBefore,
                 now, memory, heldKey, everLoaded, unloadedSince>>

\* the same segment when nothing else shares the step
InferResolved(j) == ServiceInferResolved(j) /\ UNCHANGED pure

\* the awaited pipeline invocation of inference call j raises e: logged, rethrown
ServiceInferRejected(j, e) ==
  /\ j \in 1..Len(infers)
  /\ infers' = RemoveAt(infers, j)
  /\ event' = [op |-> "inferDone", outcome |-> "raised", by |-> "pipeline",
               thrown |-> e, raised |-> Rethrown(e)]
  /\ UNCHANGED <<service, heldPipeline, currentModel, status, loads, startTime, memoryBefore,
                 now, memory, heldKey, everLoaded, unloadedSince>>

\* the same segment when nothing else shares the step
InferRejected(j, e) == ServiceInferRejected(j, e) /\ UNCHANGED pure

(* ------------------- properties of the two services ------------------- *)

\* C1: a loadModel call with the model key of the call that loaded the model
\* still held starts no candidate attempt and leaves status and the held model
\* unchanged (the call is a no-op).
C1_SameKeyLoadIsNoOp ==
  [][(event'.op = "loadModel" /\ heldPipeline # Null /\ heldKey = event'.key)
       => /\ event'.outcome = "noop"
          /\ loads' = loads
          /\ status' = status
          /\ heldPipeline' = heldPipeline
          /\ currentModel' = currentModel]_vars

\* C2: right after unloadModel, whatever the state it was called in, the
\* status is {loaded:false, loading:false, error:null, progress:0}.
C2_UnloadResetsStatus ==
  event.op = "unloadModel"
    => status = [loaded |-> FALSE, loading |-> FALSE, error |-> Null, progress |-> 0]

\* C3: once unloadModel has dropped a held model, and until a loadModel
\* succeeds, every inference call raises the 'No model loaded' error and
\* invokes no pipeline.
C3_InferAfterUnloadRaises ==
  [][(event'.op = "infer" /\ unloadedSince)
       => /\ event'.outcome = "raised"
          /\ event'.raised = NoModelLoadedError
          /\ infers' = infers]_vars

C3_Witness ==
  /\ event.op = "infer"
  /\ unloadedSince
  /\ everLoaded
  /\ event.outcome = "raised"
  /\ loads # <<>>

\* C4: an inference call on a service on which no loadModel has ever
\* succeeded raises the 'No model loaded' error, invokes no pipeline, starts no
\* measurement and leaves status, model reference and currentModel unchanged.
C4_InferBeforeLoadRaises ==
  [][(event'.op = "infer" /\ ~everLoaded)
       => /\ event'.outcome = "raised"
          /\ event'.raised = NoModelLoadedError
          /\ infers' = infers
          /\ startTime' = startTime
          /\ status' = status
          /\ heldPipeline' = heldPipeline
          /\ currentModel' = currentModel]_vars

C4_Witness ==
  /\ event.op = "infer"
  /\ ~everLoaded
  /\ event.outcome = "raised"
  /\ status.loading
  /\ startTime < now

\* C5: a loadModel that succeeds has attempted the candidates in list order,
\* each once, every one before the successful one having failed and none after
\* it attempted; currentModel is the successful candidate and the status is
\* {loaded:true, loading:false, error:null, progress:100}.
C5_FirstSuccessfulCandidateWins ==
  (event.op = "loadDone" /\ event.outcome = "ok")
    => LET k == Len(event.tried)
       IN /\ k \in 1..Len(ModelsToTry(service))
          /\ event.tried = SubSeq(ModelsToTry(service), 1, k)
          /\ Len(event.errs) = k - 1
          /\ event.model = event.tried[k]
          /\ currentModel = event.model
          /\ heldPipeline = event.model
          /\ status = [loaded |-> TRUE, loading |-> FALSE, error |-> Null,
                       progress |-> 100]

C5_Witness ==
  /\ event.op = "loadDone"
  /\ event.outcome = "ok"
  /\ event.model = "Xenova/gpt2"

\* C6: a loadModel raises only when every candidate has failed; it then raises
\* the error of the last candidate of the list, after setting the status to
\* {loaded:false, loading:false, error:<string of that error>, progress:0}; a
\* call whose candidates have all failed is no longer in flight.
C6_LastCandidateErrorRaised ==
  /\ (event.op = "loadDone" /\ event.outcome = "raised")
       => LET n == Len(ModelsToTry(service))
          IN /\ event.tried = ModelsToTry(service)
             /\ Len(event.errs) = n
             /\ event.raised = event.errs[n]
             /\ event.raised \in PipelineErrors(ModelsToTry(service)[n])
             /\ \A k \in 1..(n - 1) : event.errs[k] \in PipelineErrors(ModelsToTry(service)[k])
             /\ status = [loaded |-> FALSE, loading |-> FALSE,
                          error |-> event.raised.name \o ": " \o event.raised.message,
                          progress |-> 0]
  /\ \A i \in 1..Len(loads) : Len(loads[i].errs) < Len(ModelsToTry(service))

C6_Witness ==
  /\ event.op = "loadDone"
  /\ event.outcome = "raised"
  /\ service = "llm"
  /\ event.raised.name = "TypeError"

\* C7: at most one loadModel call of the service, hence at most one pipeline
\* construction, is in flight at any time.
C7_OneLoadInFlight == Len(loads) <= 1

(* --------------------------- specification ---------------------------- *)

\* C15: an inference call invokes the pipeline once, and when the pipeline
\* raises the call does not invoke it again (the call is no longer awaiting and
\* no other call is added), the error raised to the caller is the error the
\* pipeline raised, and neither segment of the call changes status, the held
\* model or currentModel.
C15_PipelineErrorRethrown ==
  [][/\ (event'.op = "infer" /\ event'.outcome = "invoked")
          => /\ Len(infers') = Len(infers) + 1
             /\ status' = status
             /\ heldPipeline' = heldPipeline
             /\ currentModel' = currentModel
     /\ (event'.op = "inferDone" /\ event'.outcome = "raised"
           /\ event'.by = "pipeline")
          => /\ event'.raised = event'.thrown
             /\ Len(infers') = Len(infers) - 1
             /\ loads' = loads
             /\ status' = status
             /\ heldPipeline' = heldPipeline
             /\ currentModel' = currentModel]_vars

C15_Witness ==
  /\ event.op = "inferDone"
  /\ event.outcome = "raised"
  /\ event.by = "pipeline"
  /\ event.raised \in InferenceErrors
  /\ heldPipeline # Null
  /\ status = LoadedStatus
  /\ infers = <<>>

\* C16: unloadModel does not stop a loadModel that is awaiting its pipeline:
\* the call stays in flight as it was, and a candidate that then succeeds
\* leaves the service holding that candidate's model with loaded:true.
C16_UnloadDoesNotAbortLoad ==
  [][/\ event'.op = "unloadModel" => loads' = loads
     /\ (event'.op = "loadDone" /\ event'.outcome = "ok")
          => /\ heldPipeline' = event'.model
             /\ currentModel' = event'.model
             /\ status' = LoadedStatus]_vars

C16_Witness ==
  /\ event.op = "unloadModel"
  /\ Len(loads) = 1
  /\ everLoaded
  /\ unloadedSince
  /\ heldPipeline = Null
  /\ status = UnloadedStatus

\* C19: the inferenceTime of a response is the time between that call's own
\* startMeasurement and endMeasurement, also when the other service starts a
\* load or an inference in between.
C19_InferenceTimeIsOwnElapsed ==
  (event.op = "inferDone" /\ event.outcome = "ok")
    => event.metrics.inferenceTime = now - event.startedAt

\* C20: whenever the status has loaded:false and loading:false the service
\* holds no model (so that an inference raises the no-model error).
C20_NotLoadedHoldsNoModel ==
  (~status.loaded /\ ~status.loading) => heldPipeline = Null

\* C21: the model reference is non-null exactly when currentModel is a
\* non-empty candidate identifier, and a status with loaded:true implies that a
\* model is held and that currentModel names the candidate whose pipeline it is.
C21_ReferenceMatchesCurrentModel ==
  /\ heldPipeline # Null
       <=> currentModel \in {ModelsToTry(service)[k] :
                               k \in 1..Len(ModelsToTry(service))}
  /\ heldPipeline = Null <=> currentModel = ""
  /\ status.loaded => (heldPipeline # Null /\ currentModel = heldPipeline)

C21_Witness ==
  /\ event.op = "unloadModel"
  /\ unloadedSince
  /\ heldPipeline = Null
  /\ currentModel = ""
  /\ Len(loads) = 1
  /\ ~status.loaded

\* C22: status.loading is true exactly while a load is in flight: while some
\* loadModel call awaits its pipeline the status has loading:true and
\* loaded:false, and loading is false when no loadModel call is in flight.
C22_LoadingWhileLoadInFlight ==
  /\ loads # <<>> => (status.loading /\ ~status.loaded)
  /\ loads = <<>> => ~status.loading

AllPipelineErrors ==
  UNION { PipelineErrors(ModelsToTry(service)[k]) : k \in 1..Len(ModelsToTry(service)) }

Next ==
  \/ Tick
  \/ OtherServiceMeasures
  \/ \E key \in CallerKeys(service) : LoadModel(key)
  \/ \E i \in 1..Len(loads) : \E pm \in ProgressReports : ProgressCallback(i, pm)
  \/ \E i \in 1..Len(loads) : PipelineResolved(i)
  \/ \E i \in 1..Len(loads) : \E e \in AllPipelineErrors : PipelineRejected(i, e)
  \/ UnloadModel
  \/ Infer
  \/ \E j \in 1..Len(infers) : InferResolved(j)
  \/ \E j \in 1..Len(infers) : \E e \in InferenceErrors : InferRejected(j, e)

Spec == Init /\ [][Next]_vars

(* ------------------- strings as character sequences ------------------- *)

\* A JavaScript string is modelled as the sequence of its characters, each a
\* one-character string: "ls" is <<"l", "s">>.  The grave accent, which a TLA+
\* string cannot hold, is the character BackTick.

BackTick == "grave-accent"

\* the lower-case letter of every upper-case ASCII letter
LowerCaseOf ==
  "A" :> "a" @@ "B" :> "b" @@ "C" :> "c" @@ "D" :> "d" @@ "E" :> "e" @@
  "F" :> "f" @@ "G" :> "g" @@ "H" :> "h" @@ "I" :> "i" @@ "J" :> "j" @@
  "K" :> "k" @@ "L" :> "l" @@ "M" :> "m" @@ "N" :> "n" @@ "O" :> "o" @@
  "P" :> "p" @@ "Q" :> "q" @@ "R" :> "r" @@ "S" :> "s" @@ "T" :> "t" @@
  "U" :> "u" @@ "V" :> "v" @@ "W" :> "w" @@ "X" :> "x" @@ "Y" :> "y" @@
  "Z" :> "z"

\* String.prototype.toLowerCase, on the ASCII letters
ToLowerCase(str) ==
  [i \in 1..Len(str) |->
     IF str[i] \in DOMAIN LowerCaseOf THEN LowerCaseOf[str[i]] ELSE str[i]]

\* the white space and line terminators String.prototype.trim removes
WhiteSpace == {" ", "\t", "\n", "\r", "\f"}

RECURSIVE TrimStart(_)
TrimStart(str) ==
  IF str # <<>> /\ Head(str) \in WhiteSpace THEN TrimStart(Tail(str)) ELSE str

RECURSIVE TrimEnd(_)
TrimEnd(str) ==
  IF str # <<>> /\ str[Len(str)] \in WhiteSpace
    THEN TrimEnd(SubSeq(str, 1, Len(str) - 1))
    ELSE str

\* String.prototype.trim
Trim(str) == TrimEnd(TrimStart(str))

\* String.prototype.includes
Includes(str, pat) ==
  \E i \in 0..(Len(str) - Len(pat)) : \A k \in 1..Len(pat) : str[i + k] = pat[k]

\* String.prototype.startsWith
StartsWith(str, pat) ==
  Len(str) >= Len(pat) /\ SubSeq(str, 1, Len(pat)) = pat

RECURSIVE SplitFrom(_, _, _, _)
SplitFrom(str, i, piece, pieces) ==
  IF i > Len(str) THEN Append(pieces, piece)
  ELSE IF str[i] = "\n" THEN SplitFrom(str, i + 1, <<>>, Append(pieces, piece))
  ELSE SplitFrom(str, i + 1, Append(piece, str[i]), pieces)

\* String.prototype.split('\n'): the pieces between newlines, at least one
SplitLines(str) == SplitFrom(str, 1, <<>>, <<>>)

RECURSIVE JoinLines(_)
\* Array.prototype.join('\n')
JoinLines(lines) ==
  IF lines = <<>> THEN <<>>
  ELSE IF Len(lines) = 1 THEN lines[1]
  ELSE lines[1] \o <<"\n">> \o JoinLines(Tail(lines))

\* Array.prototype.map, with line => line.trim()
MapTrim(lines) == [k \in 1..Len(lines) |-> Trim(lines[k])]

(* --------------------------- SimpleTokenizer -------------------------- *)

APPROX_CHARS_PER_TOKEN == 4

MathFloorDiv(a, b) == a \div b

\* Math.ceil(a / b) for non-negative integers a and b > 0
MathCeilDiv(a, b) == IF a % b = 0 THEN a \div b ELSE (a \div b) + 1

\* estimateTokens: Math.ceil(text.length / APPROX_CHARS_PER_TOKEN)
EstimateTokens(text) == MathCeilDiv(Len(text), APPROX_CHARS_PER_TOKEN)

(* ----------------- CommandService.applyOutputGuardrails ---------------- *)

StrBecause ==
  <<"b", "e", "c", "a", "u", "s", "e">>

StrTo ==
  <<"t", "o", " ">>

StrThisWill ==
  <<"t", "h", "i", "s", " ", "w", "i", "l", "l">>

StrYouCan ==
  <<"y", "o", "u", " ", "c", "a", "n">>

StrHash ==
  <<"#">>

StrFence ==
  <<BackTick, BackTick, BackTick>>

FallbackLine ==
  <<"#", " ", "C", "h", "e", "c", "k", " ", "a", "v", "a", "i", "l", "a",
    "b", "l", "e", " ", "t", "o", "o", "l", "s", " ", "a", "n", "d", " ",
    "s", "y", "s", "t", "e", "m", " ", "d", "o", "c", "u", "m", "e", "n",
    "t", "a", "t", "i", "o", "n">>

\* line => line.length > 0
NonEmpty(line) == Len(line) > 0

KeepLineCaseSensitive(line) ==
  /\ ~Includes(line, StrBecause)
  /\ ~Includes(line, StrTo)
  /\ ~Includes(line, StrThisWill)
  /\ ~Includes(line, StrYouCan)
  /\ ~Includes(line, StrHash)
  /\ ~StartsWith(line, StrFence)

\* the predicate of the second filter
KeepLine(line) ==
  LET lower == ToLowerCase(line)
  IN /\ ~Includes(lower, StrBecause)
     /\ ~Includes(lower, StrTo)
     /\ ~Includes(lower, StrThisWill)
     /\ ~Includes(lower, StrYouCan)
     /\ ~Includes(line, StrHash)
     /\ ~StartsWith(line, StrFence)

SliceSecondToFourth(lines) ==
  SubSeq(lines, 2, IF Len(lines) < 4 THEN Len(lines) ELSE 4)

SliceFirstFour(lines) == SubSeq(lines, 1, IF Len(lines) < 4 THEN Len(lines) ELSE 4)

\* lines.slice(0, 3)
SliceFirstThree(lines) == SubSeq(lines, 1, IF Len(lines) < 3 THEN Len(lines) ELSE 3)

ApplyOutputGuardrails(output) ==
  LET cleaned == SelectSeq(MapTrim(SplitLines(output)), NonEmpty)
      kept == SliceFirstThree(SelectSeq(cleaned, KeepLine))
  IN IF Len(kept) = 0 THEN <<FallbackLine>> ELSE kept

\* lines a raw model output is made of
LineLs ==
  <<"l", "s", " ", "-", "l", "a">>

LineBecause ==
  <<"b", "e", "c", "a", "u", "s", "e", " ", "y", "o", "u", " ", "w", "a",
    "n", "t", " ", "t", "o", " ", "s", "e", "e", " ", "f", "i", "l", "e",
    "s">>

LineCat ==
  <<"c", "a", "t", " ", "f", "i", "l", "e", ".", "t", "x", "t">>

LineEchoToDo ==
  <<"e", "c", "h", "o", " ", "'", "t", "o", " ", "d", "o", "'">>

LineSudo ==
  <<"s", "u", "d", "o", " ", "a", "p", "t", "-", "g", "e", "t", " ", "i",
    "n", "s", "t", "a", "l", "l">>

LineComment ==
  <<"#", " ", "c", "o", "m", "m", "e", "n", "t">>

LineFence ==
  <<BackTick, BackTick, BackTick>>

LineBlank ==
  <<" ", " ">>

LineThisWill ==
  <<" ", "T", "h", "i", "s", " ", "W", "i", "l", "l", "\r">>

LineTouch ==
  <<" ", "t", "o", "u", "c", "h", " ", "a", " ">>

LineYouCan ==
  <<"Y", "o", "u", " ", "c", "a", "n">>

LineSamples ==
  {LineLs, LineTouch, LineBlank, LineEchoToDo, LineThisWill, LineComment,
   LineFence}

\* the documented examples and one output per remaining denylist phrase
ExampleLineLists ==
  { <<LineLs, LineBecause, LineCat>>,
    <<LineEchoToDo, LineSudo>>,
    <<LineSudo, LineYouCan, LineCat, LineLs, LineTouch>>,
    <<LineBecause>>,
    <<FallbackLine>> }

\* the raw outputs, as lists of lines to be joined by newlines: the examples
\* and every list of up to MaxLines sample lines
RawLineLists ==
  ExampleLineLists \cup UNION { [1..n -> LineSamples] : n \in 0..MaxLines }

\* the texts given to the tokenizer: up to MaxTextLen characters
Texts == UNION { [1..n -> {"a", " "}] : n \in 0..MaxTextLen }

ServiceInit(s) ==
  /\ service = s
  /\ heldPipeline = Null
  /\ currentModel = ""
  /\ status = InitialStatus
  /\ loads = <<>>
  /\ infers = <<>>
  /\ startTime = 0
  /\ memoryBefore = 0
  /\ now = 0
  /\ memory = NoPerformanceMemory
  /\ event = [op |-> "init"]
  /\ heldKey = Null
  /\ everLoaded = FALSE
  /\ unloadedSince = FALSE

serviceVars == <<service, heldPipeline, currentModel, status, loads, infers,
                 startTime, memoryBefore, now, memory, event, heldKey, everLoaded, unloadedSince>>

InitGuardrails ==
  /\ ServiceInit("cmd")
  /\ \E lines \in RawLineLists :
       pure = [fn |-> "applyOutputGuardrails", lines |-> lines,
               arg |-> JoinLines(lines), done |-> FALSE]

\* generateCommands from the raw output on: the guardrails, the output tokens
\* and the commands of the response
GuardrailsApplied ==
  /\ pure.fn = "applyOutputGuardrails"
  /\ ~pure.done
  /\ LET commands == ApplyOutputGuardrails(pure.arg)
     IN pure' = [fn |-> pure.fn, lines |-> pure.lines, arg |-> pure.arg,
                 done |-> TRUE, ret |-> commands,
                 response |-> [commands |-> commands,
                               outputTokens |-> EstimateTokens(JoinLines(commands))]]
  /\ UNCHANGED serviceVars

NextGuardrails == GuardrailsApplied

SpecGuardrails == InitGuardrails /\ [][NextGuardrails]_vars

InitTokenizer ==
  /\ ServiceInit("llm")
  /\ \E text \in Texts : pure = [fn |-> "estimateTokens", arg |-> text, done |-> FALSE]

EstimateTokensCalled ==
  /\ pure.fn = "estimateTokens"
  /\ ~pure.done
  /\ pure' = [fn |-> pure.fn, arg |-> pure.arg, done |-> TRUE,
              ret |-> EstimateTokens(pure.arg)]
  /\ UNCHANGED serviceVars

NextTokenizer == EstimateTokensCalled

SpecTokenizer == InitTokenizer /\ [][NextTokenizer]_vars

(* -------------------- properties of the guardrails -------------------- *)

\* the raw output of the example: three lines, the second an explanation
ExampleRawOutput ==
  <<"l", "s", " ", "-", "l", "a", "\n", "b", "e", "c", "a", "u", "s", "e",
    " ", "y", "o", "u", " ", "w", "a", "n", "t", " ", "t", "o", " ", "s",
    "e", "e", " ", "f", "i", "l", "e", "s", "\n", "c", "a", "t", " ", "f",
    "i", "l", "e", ".", "t", "x", "t">>

\* a trimmed line passes the denylist: no 'because', 'to ', 'this will' or
\* 'you can' in its lower-cased text, no '#', no three leading backticks
PassesDenylist(line) ==
  /\ \A phrase \in {StrBecause, StrTo, StrThisWill, StrYouCan} :
       ~Includes(ToLowerCase(line), phrase)
  /\ \A k \in 1..Len(line) : line[k] # "#"
  /\ ~(Len(line) >= 3 /\ \A k \in 1..3 : line[k] = BackTick)

\* the trimmed, non-blank, non-denylisted lines of a list of lines, in order
SurvivingLines(lines) ==
  LET Survives(line) == line # <<>> /\ PassesDenylist(line)
  IN SelectSeq([k \in 1..Len(lines) |-> Trim(lines[k])], Survives)

\* C8: applyOutputGuardrails returns 1 to 3 lines, and returns exactly the
\* fallback line if and only if no input line survives the blank-line and
\* denylist filters; the commands of a CommandResponse are 1 to 3.
C8_OneToThreeLinesOrFallback ==
  (pure.fn = "applyOutputGuardrails" /\ pure.done)
    => /\ Len(pure.ret) \in 1..3
       /\ (pure.ret = <<FallbackLine>>) <=> (SurvivingLines(pure.lines) = <<>>)
       /\ Len(pure.response.commands) \in 1..3

C8_Witness ==
  /\ pure.fn = "applyOutputGuardrails"
  /\ pure.done
  /\ pure.lines = <<LineFence, LineComment, LineFence>>
  /\ pure.ret = <<FallbackLine>>

\* C9: when a line survives, applyOutputGuardrails returns the first three (or
\* fewer) surviving lines in their original order; the example output gives
\* ['ls -la', 'cat file.txt'], and of "echo 'to do'" and 'sudo apt-get install'
\* only the second is kept.
C9_FirstThreeSurvivors ==
  (pure.fn = "applyOutputGuardrails" /\ pure.done)
    => LET survivors == SurvivingLines(pure.lines)
       IN /\ survivors # <<>> =>
               pure.ret = [k \in 1..(IF Len(survivors) < 3 THEN Len(survivors) ELSE 3)
                             |-> survivors[k]]
          /\ pure.arg = ExampleRawOutput => pure.ret = <<LineLs, LineCat>>
          /\ pure.lines = <<LineEchoToDo, LineSudo>> => pure.ret = <<LineSudo>>

C9_Witness ==
  /\ pure.fn = "applyOutputGuardrails"
  /\ pure.done
  /\ pure.arg = ExampleRawOutput
  /\ pure.ret = <<LineLs, LineCat>>

(* --------------------- properties of the tokenizer -------------------- *)

\* C10: estimateTokens(s) is the ceiling of len(s)/4, the least integer n with
\* 4n >= len(s), 0 for the empty string, and no text that is not longer than s
\* has a larger estimate.
C10_EstimateIsCeilingAndMonotonic ==
  (pure.fn = "estimateTokens" /\ pure.done)
    => /\ 4 * pure.ret >= Len(pure.arg)
       /\ 4 * (pure.ret - 1) < Len(pure.arg)
       /\ pure.arg = <<>> => pure.ret = 0
       /\ \A text \in Texts :
            Len(text) <= Len(pure.arg) => EstimateTokens(text) <= pure.ret

C10_Witness ==
  /\ pure.fn = "estimateTokens"
  /\ pure.done
  /\ Len(pure.arg) = 5
  /\ pure.ret = 2

(* ---------------------- SimpleTokenizer.truncateText ------------------- *)

\* String.prototype.substring(start, end): both clamped to 0..length
Substring(str, start, end) ==
  LET clamp(x) == IF x < 0 THEN 0 ELSE IF x > Len(str) THEN Len(str) ELSE x
      from == IF clamp(start) < clamp(end) THEN clamp(start) ELSE clamp(end)
      to == IF clamp(start) < clamp(end) THEN clamp(end) ELSE clamp(start)
  IN SubSeq(str, from + 1, to)

MaxCharsUnscaled(maxTokens) == maxTokens

\* const maxChars = maxTokens * this.APPROX_CHARS_PER_TOKEN
MaxChars(maxTokens) == maxTokens * APPROX_CHARS_PER_TOKEN

\* truncateText
TruncateText(text, maxTokens) ==
  IF Len(text) > MaxChars(maxTokens)
    THEN Substring(text, 0, MaxChars(maxTokens))
    ELSE text

InitTruncate ==
  /\ ServiceInit("llm")
  /\ \E text \in Texts : \E maxTokens \in 0..MaxTruncateTokens :
       pure = [fn |-> "truncateText", arg |-> text, maxTokens |-> maxTokens,
               done |-> FALSE]

TruncateTextCalled ==
  /\ pure.fn = "truncateText"
  /\ ~pure.done
  /\ pure' = [fn |-> pure.fn, arg |-> pure.arg, maxTokens |-> pure.maxTokens,
              done |-> TRUE, ret |-> TruncateText(pure.arg, pure.maxTokens)]
  /\ UNCHANGED serviceVars

NextTruncate == TruncateTextCalled

SpecTruncate == InitTruncate /\ [][NextTruncate]_vars

\* C11: truncateText(s, n) is the prefix of s of length min(len(s), 4n): s
\* itself when len(s) <= 4n, else its first 4n characters; its token estimate
\* is at most n.
C11_TruncateIsBoundedPrefix ==
  (pure.fn = "truncateText" /\ pure.done)
    => LET s == pure.arg
           n == pure.maxTokens
           r == pure.ret
       IN /\ Len(r) = (IF Len(s) < 4 * n THEN Len(s) ELSE 4 * n)
          /\ \A k \in 1..Len(r) : r[k] = s[k]
          /\ Len(s) <= 4 * n => r = s
          /\ 4 * n >= Len(r)
          /\ EstimateTokens(r) <= n

C11_Witness ==
  /\ pure.fn = "truncateText"
  /\ pure.done
  /\ pure.maxTokens = 1
  /\ pure.arg = <<"a", " ", "a", "a", " ", "a">>
  /\ pure.ret = <<"a", " ", "a", "a">>

(* ------------- PerformanceMonitor.calculateTokensPerSecond ------------- *)

\* A JavaScript number that is not an integer is modelled as the fraction
\* num/den in lowest terms with den > 0.

RECURSIVE Gcd(_, _)
Gcd(a, b) == IF b = 0 THEN a ELSE Gcd(b, a % b)

Abs(x) == IF x < 0 THEN 0 - x ELSE x

\* the number num/den, den # 0, in lowest terms
Fraction(num, den) ==
  LET g == Gcd(Abs(num), Abs(den))
      sign == IF den < 0 THEN 0 - 1 ELSE 1
  IN [num |-> sign * (num \div g), den |-> sign * (den \div g)]

\* x / y for numbers x and y # 0
Divide(x, y) == Fraction(x.num * y.den, x.den * y.num)

Number(k) == [num |-> k, den |-> 1]

CalculateTokensPerMillisecond(tokens, timeMs) ==
  IF timeMs > 0 THEN Divide(Number(tokens), Number(timeMs)) ELSE Number(0)

\* calculateTokensPerSecond: timeMs > 0 ? (tokens / (timeMs / 1000)) : 0
CalculateTokensPerSecond(tokens, timeMs) ==
  IF timeMs > 0
    THEN Divide(Number(tokens), Divide(Number(timeMs), Number(1000)))
    ELSE Number(0)

\* token counts and measured times given to calculateTokensPerSecond
TokenCounts == 0..MaxTokenCount \cup {100}

Millis == (0 - 1)..MaxMillis \cup {1000}

InitThroughput ==
  /\ ServiceInit("llm")
  /\ \E tokens \in TokenCounts : \E timeMs \in Millis :
       pure = [fn |-> "calculateTokensPerSecond", tokens |-> tokens,
               timeMs |-> timeMs, done |-> FALSE]

\* the metrics of a response: the base metrics with inferenceTime timeMs and
\* the tokensPerSecond of the output tokens
MetricsBuilt ==
  /\ pure.fn = "calculateTokensPerSecond"
  /\ ~pure.done
  /\ LET tps == CalculateTokensPerSecond(pure.tokens, pure.timeMs)
     IN pure' = [fn |-> pure.fn, tokens |-> pure.tokens, timeMs |-> pure.timeMs,
                 done |-> TRUE, ret |-> tps,
                 metrics |-> [loadTime |-> 0, inferenceTime |-> pure.timeMs,
                              tokensPerSecond |-> tps]]
  /\ UNCHANGED serviceVars

NextThroughput == MetricsBuilt

SpecThroughput == InitThroughput /\ [][NextThroughput]_vars

\* C12: calculateTokensPerSecond(tokens, ms) is 0 when ms <= 0 and otherwise
\* the number r with r * (ms / 1000) = tokens; (100, 0) gives 0 and
\* (100, 1000) gives 100; the tokensPerSecond of a response whose
\* inferenceTime is 0 is 0.
C12_TokensPerSecond ==
  (pure.fn = "calculateTokensPerSecond" /\ pure.done)
    => LET r == pure.ret
       IN /\ r.den > 0
          /\ pure.timeMs <= 0 => r = [num |-> 0, den |-> 1]
          /\ pure.timeMs > 0 => r.num * pure.timeMs = pure.tokens * 1000 * r.den
          /\ (pure.tokens = 100 /\ pure.timeMs = 0) => r = [num |-> 0, den |-> 1]
          /\ (pure.tokens = 100 /\ pure.timeMs = 1000) => r = [num |-> 100, den |-> 1]
          /\ pure.metrics.inferenceTime = 0
               => pure.metrics.tokensPerSecond = [num |-> 0, den |-> 1]

C12_Witness ==
  /\ pure.fn = "calculateTokensPerSecond"
  /\ pure.done
  /\ pure.tokens = 100
  /\ pure.timeMs = 1000
  /\ pure.ret = [num |-> 100, den |-> 1]

(* ------------------- PerformanceMonitor taken alone -------------------- *)

\* pure.lastStart and pure.prevStart are history: the clock and heap size at
\* the most recent startMeasurement and at the one before it

StaticInitialisers == [time |-> 0, heap |-> 0]

InitMonitor ==
  /\ service = "llm"
  /\ heldPipeline = Null
  /\ currentModel = ""
  /\ status = InitialStatus
  /\ loads = <<>>
  /\ infers = <<>>
  /\ startTime = 0
  /\ memoryBefore = 0
  /\ now = 0
  /\ memory \in {NoPerformanceMemory, [present |-> TRUE, usedJSHeapSize |-> 0]}
  /\ event = [op |-> "init"]
  /\ heldKey = Null
  /\ everLoaded = FALSE
  /\ unloadedSince = FALSE
  /\ pure = [fn |-> "PerformanceMonitor", lastStart |-> StaticInitialisers,
             prevStart |-> StaticInitialisers]

monitorUnchanged ==
  <<service, heldPipeline, currentModel, status, loads, infers, heldKey,
    everLoaded, unloadedSince>>

ClockAdvances ==
  /\ now < MaxClock
  /\ now' = now + 1
  /\ event' = [op |-> "tick"]
  /\ UNCHANGED <<monitorUnchanged, pure, startTime, memoryBefore, memory>>

\* allocation or garbage collection changes usedJSHeapSize
HeapChanges(size) ==
  /\ memory.present
  /\ size # memory.usedJSHeapSize
  /\ memory' = [present |-> TRUE, usedJSHeapSize |-> size]
  /\ event' = [op |-> "heap"]
  /\ UNCHANGED <<monitorUnchanged, pure, startTime, memoryBefore, now>>

StartMeasurementCalled ==
  /\ startTime' = StartMeasurement
  /\ memoryBefore' = GetMemoryUsage
  /\ event' = [op |-> "startMeasurement"]
  /\ pure' = [pure EXCEPT !.prevStart = pure.lastStart,
                          !.lastStart = [time |-> now, heap |-> GetMemoryUsage]]
  /\ UNCHANGED <<monitorUnchanged, now, memory>>

EndMeasurementCalled ==
  /\ event' = [op |-> "endMeasurement", metrics |-> EndMeasurement,
               startTimeBefore |-> startTime, memoryBeforeBefore |-> memoryBefore]
  /\ UNCHANGED <<monitorUnchanged, pure, startTime, memoryBefore, now, memory>>

NextMonitor ==
  \/ ClockAdvances
  \/ \E size \in 0..MaxHeap : HeapChanges(size)
  \/ StartMeasurementCalled
  \/ EndMeasurementCalled

SpecMonitor == InitMonitor /\ [][NextMonitor]_vars

\* C13: the monitor keeps one start point. endMeasurement reports the time
\* elapsed and the heap growth since the most recent startMeasurement (a later
\* startMeasurement replaces an earlier one) and leaves the start point as it
\* was.
C13_SingleStartPoint ==
  /\ startTime = pure.lastStart.time
  /\ memoryBefore = pure.lastStart.heap
  /\ event.op = "endMeasurement"
       => /\ event.metrics.inferenceTime = now - pure.lastStart.time
          /\ event.metrics.memoryUsage = GetMemoryUsage - pure.lastStart.heap
          /\ event.metrics.loadTime = 0
          /\ startTime = event.startTimeBefore
          /\ memoryBefore = event.memoryBeforeBefore

C13_Witness ==
  /\ event.op = "endMeasurement"
  /\ pure.prevStart = [time |-> 1, heap |-> 2]
  /\ pure.lastStart = [time |-> 2, heap |-> 1]
  /\ now = 3
  /\ memory.usedJSHeapSize = 0
  /\ event.metrics = [loadTime |-> 0, inferenceTime |-> 1, memoryUsage |-> 0 - 1]

(* ------------------ loadModel and the progress callback ---------------- *)

\* progress.progress values of a runtime that reports the share of a file
\* downloaded as a percentage (50.5 for 50.5 %) rather than as a fraction, in
\* thousandths; the callback's argument is typed any
PercentageReports == {0, 505, 1000, 50500, 100000}

NextProgress ==
  \/ \E key \in CallerKeys(service) : LoadModel(key)
  \/ \E i \in 1..Len(loads) : \E pm \in PercentageReports : ProgressCallback(i, pm)
  \/ \E i \in 1..Len(loads) : PipelineResolved(i)
  \/ \E i \in 1..Len(loads) : \E e \in AllPipelineErrors : PipelineRejected(i, e)
  \/ UnloadModel

SpecProgress == Init /\ [][NextProgress]_vars

INPUT_MAX == 1000

OUTPUT_MIN == 50

OUTPUT_MAX == 100

\* 'Summarize the following text: '
TaskPrefix ==
  <<"S", "u", "m", "m", "a", "r", "i", "z", "e", " ", "t", "h", "e", " ",
    "f", "o", "l", "l", "o", "w", "i", "n", "g", " ", "t", "e", "x", "t",
    ":", " ">>

\* the prompt of the GPT branch up to the request text
GptPromptHead ==
  <<"S", "u", "m", "m", "a", "r", "i", "z", "e", " ", "t", "h", "i", "s",
    " ", "t", "e", "x", "t", " ", "a", "c", "c", "u", "r", "a", "t", "e",
    "l", "y", ".", " ", "U", "s", "e", " ", "y", "o", "u", "r", " ", "o",
    "w", "n", " ", "w", "o", "r", "d", "s", " ", "b", "u", "t", " ", "d",
    "o", " ", "n", "o", "t", " ", "a", "d", "d", " ", "a", "n", "y", " ",
    "i", "n", "f", "o", "r", "m", "a", "t", "i", "o", "n", " ", "t", "h",
    "a", "t", " ", "w", "a", "s", "n", "'", "t", " ", "i", "n", " ", "t",
    "h", "e", " ", "o", "r", "i", "g", "i", "n", "a", "l", ":", "\n", "\n",
    "T", "e", "x", "t", ":", " ">>

\* the prompt of the GPT branch after the request text
GptPromptTail ==
  <<"\n", "\n", "S", "u", "m", "m", "a", "r", "y", ":">>

StrSummaryColon ==
  <<"S", "u", "m", "m", "a", "r", "y", ":">>

\* String.prototype.endsWith
EndsWith(str, pat) ==
  Len(str) >= Len(pat) /\ SubSeq(str, Len(str) - Len(pat) + 1, Len(str)) = pat

\* the positions where the separator '. ' starts (two occurrences cannot overlap)
SeparatorsAt(str) ==
  {p \in 1..(Len(str) - 1) : str[p] = "." /\ str[p + 1] = " "}

RECURSIVE SplitSentencesFrom(_, _, _)
SplitSentencesFrom(str, start, seps) ==
  IF seps = {} THEN <<SubSeq(str, start, Len(str))>>
  ELSE LET p == CHOOSE q \in seps : \A r \in seps : q <= r
       IN <<SubSeq(str, start, p - 1)>>
            \o SplitSentencesFrom(str, p + 2, seps \ {p})

\* String.prototype.split('. ')
SplitSentences(str) == SplitSentencesFrom(str, 1, SeparatorsAt(str))

RECURSIVE KeepIndices(_, _, _)
\* the elements of seq at the positions in keep, from position i on, in order
KeepIndices(seq, keep, i) ==
  IF i > Len(seq) THEN <<>>
  ELSE (IF i \in keep THEN <<seq[i]>> ELSE <<>>) \o KeepIndices(seq, keep, i + 1)

\* .filter(s => s.trim())
NonBlankSentences(sentences) ==
  KeepIndices(sentences,
              {i \in 1..Len(sentences) : Trim(sentences[i]) # <<>>}, 1)

\* [...new Set(sentences)]: the first occurrence of every sentence, in order
UniqueSentences(sentences) ==
  KeepIndices(sentences,
              {i \in 1..Len(sentences) :
                 \A j \in 1..(i - 1) : sentences[j] # sentences[i]}, 1)

RECURSIVE JoinSentences(_)
\* Array.prototype.join('. ')
JoinSentences(sentences) ==
  IF sentences = <<>> THEN <<>>
  ELSE IF Len(sentences) = 1 THEN sentences[1]
  ELSE sentences[1] \o <<".", " ">> \o JoinSentences(Tail(sentences))

\* the T5 preprocessing: task prefix, then the repeated sentences removed
ProcessedText(text) ==
  JoinSentences(UniqueSentences(NonBlankSentences(
    SplitSentences(TaskPrefix \o text))))

\* the prompt of the GPT branch
GptPrompt(text) == GptPromptHead \o text \o GptPromptTail

\* String.prototype.indexOf(pat); the model uses it with pat # ''
IndexOf(str, pat) ==
  LET hits == {i \in 0..(Len(str) - Len(pat)) :
                 SubSeq(str, i + 1, i + Len(pat)) = pat}
  IN IF hits = {} THEN 0 - 1 ELSE CHOOSE i \in hits : \A k \in hits : i <= k

\* String.prototype.replace(pat, '') with a string pattern: the first
\* occurrence removed
RemoveFirst(str, pat) ==
  LET i == IndexOf(str, pat)
  IN IF i < 0 THEN str
     ELSE SubSeq(str, 1, i) \o SubSeq(str, i + Len(pat) + 1, Len(str))

ExceedsInputMaxNever(tokens) == FALSE

\* if (inputTokens > TOKEN_LIMITS.INPUT_MAX)
ExceedsInputMax(tokens) == tokens > INPUT_MAX

\* request.text after the validate-and-truncate step
LimitedText(text) ==
  IF ExceedsInputMax(EstimateTokens(text)) THEN TruncateText(text, INPUT_MAX)
  ELSE text

\* a || b on numbers: b when a is 0 or absent (absent is modelled as 0)
OrDefault(a, b) == IF a = 0 THEN b ELSE a

Min(a, b) == IF a < b THEN a ELSE b

Max(a, b) == IF a > b THEN a ELSE b

\* the options of the T5 call (numbers with one decimal are in tenths)
T5Options(request) ==
  [max_length |-> Min(OrDefault(request.maxLength, OUTPUT_MAX),
                      IF EstimateTokens(request.text) > 200 THEN 80 ELSE 45),
   min_length |-> Max(OrDefault(request.minLength, OUTPUT_MIN), 25),
   do_sample |-> FALSE, num_beams |-> 4, early_stopping |-> TRUE,
   length_penalty10 |-> 12]

\* the options of the GPT call
GptOptions(request) ==
  [max_new_tokens |-> OrDefault(request.maxLength, OUTPUT_MAX),
   temperature10 |-> 3, do_sample |-> FALSE, repetition_penalty10 |-> 12,
   pad_token_id |-> 50256]

StrHi == <<"H", "i">>

StrRepeated ==
  <<"C", "a", "t", "s", " ", "n", "a", "p", ".", " ", "C", "a", "t", "s",
    " ", "n", "a", "p", ".", " ", "D", "o", "g", "s", " ", "b", "a", "r",
    "k">>

StrBlankSentence ==
  <<"H", "i", ".", " ", " ", ".", " ", "Y", "o">>

\* a text of n characters, the first INPUT_MAX * 4 of them 'a', the rest 'b'
LongText(n) == [i \in 1..n |-> IF i <= INPUT_MAX * 4 THEN "a" ELSE "b"]

\* request texts: short ones, and long ones around the input limit
ShortTexts == {<<>>, StrHi, StrRepeated, StrBlankSentence}

LongTexts ==
  {LongText(n) : n \in (INPUT_MAX * 4 - 1)..(INPUT_MAX * 4 + MaxExcessChars)}

\* requests: maxLength and minLength absent, or as SummarizerForm sends them
SummarizeRequests ==
  {[text |-> text, maxLength |-> l[1], minLength |-> l[2]] :
     text \in ShortTexts, l \in {<<0, 0>>, <<OUTPUT_MAX, OUTPUT_MIN>>}}
    \cup {[text |-> text, maxLength |-> 0, minLength |-> 0] : text \in LongTexts}

StrACat ==
  <<" ", "A", " ", "c", "a", "t", ".", "\n">>

\* texts a pipeline generates
GeneratedTexts == {<<>>, StrACat}

\* what the awaited pipeline can return for a call: a summarization pipeline
\* returns [{summary_text}], a text-generation pipeline [{generated_text}] with
\* the input followed by the continuation (or the continuation alone)
PipelineResults(pipe, input) ==
  IF PipelineType(pipe) = "summarization"
    THEN {[field |-> "summary_text", text |-> g] : g \in GeneratedTexts}
    ELSE {[field |-> "generated_text", text |-> input \o g] : g \in GeneratedTexts}
           \cup {[field |-> "generated_text", text |-> StrACat]}

\* first segment of summarize(request), up to the await of the pipeline
SummarizeCalled(request) ==
  /\ pure.fn = "none"
  /\ IF NoModelLoaded
       THEN /\ pure' = [fn |-> "summarize", stage |-> "raised",
                        raised |-> NoModelLoadedError]
            /\ UNCHANGED <<startTime, memoryBefore>>
       ELSE /\ LET text == LimitedText(request.text)
                   limited == [text |-> text, maxLength |-> request.maxLength,
                               minLength |-> request.minLength]
                   t5 == IncludesT5(currentModel)
                   prompt == IF t5 THEN <<>> ELSE GptPrompt(text)
               IN pure' = [fn |-> "summarize", stage |-> "awaiting",
                           original |-> request.text,
                           request |-> limited,
                           modelAtCall |-> currentModel,
                           pipe |-> heldPipeline,
                           prompt |-> prompt,
                           invoked |->
                             [task |-> PipelineType(heldPipeline),
                              input |-> IF t5 THEN ProcessedText(text) ELSE prompt,
                              options |-> IF t5 THEN T5Options(limited)
                                          ELSE GptOptions(limited)]]
            /\ startTime' = StartMeasurement
            /\ memoryBefore' = GetMemoryUsage
  /\ event' = [op |-> "summarize"]
  /\ UNCHANGED <<service, heldPipeline, currentModel, status, loads, infers, now,
                 memory, heldKey, everLoaded, unloadedSince>>

\* the awaited pipeline returns result: endMeasurement, post-processing by the
\* current model, metrics, response; a failing post-processing goes to the catch
SummarizeReturns ==
  /\ pure.fn = "summarize"
  /\ pure.stage = "awaiting"
  /\ \E result \in PipelineResults(pure.pipe, pure.invoked.input) :
      IF result.field = FieldRead
       THEN LET summary == IF IncludesT5(currentModel) THEN result.text
                           ELSE Trim(RemoveFirst(result.text, pure.prompt))
                outputTokens == EstimateTokens(summary)
                baseMetrics == EndMeasurement
            IN pure' = [stage |-> "done", result |-> result,
                        modelAtReturn |-> currentModel,
                        response |->
                          [summary |-> summary,
                           metrics |->
                             [loadTime |-> baseMetrics.loadTime,
                              inferenceTime |-> baseMetrics.inferenceTime,
                              memoryUsage |-> baseMetrics.memoryUsage,
                              tokensPerSecond |->
                                CalculateTokensPerSecond(
                                  outputTokens, baseMetrics.inferenceTime)],
                           inputTokens |-> EstimateTokens(pure.request.text),
                           outputTokens |-> outputTokens]] @@ pure
       ELSE pure' = [stage |-> "raised", result |-> result,
                     modelAtReturn |-> currentModel,
                     raised |-> Rethrown(PostProcessingError(FieldRead))] @@ pure
  /\ event' = [op |-> "summarizeDone"]
  /\ UNCHANGED <<service, heldPipeline, currentModel, status, loads, infers,
                 startTime, memoryBefore, now, memory, heldKey, everLoaded,
                 unloadedSince>>

\* the awaited pipeline raises e: logged, rethrown
SummarizeRejected(e) ==
  /\ pure.fn = "summarize"
  /\ pure.stage = "awaiting"
  /\ pure' = [stage |-> "raised", raised |-> Rethrown(e)] @@ pure
  /\ event' = [op |-> "summarizeDone"]
  /\ UNCHANGED <<service, heldPipeline, currentModel, status, loads, infers,
                 startTime, memoryBefore, now, memory, heldKey, everLoaded,
                 unloadedSince>>

InitSummarize ==
  /\ ServiceInit("llm")
  /\ pure = [fn |-> "none"]

\* the caller of this specification starts a load only when none is pending
NextSummarize ==
  \/ \E key \in CallerKeys(service) : loads = <<>> /\ LoadModel(key)
  \/ \E i \in 1..Len(loads) : PipelineResolved(i)
  \/ \E i \in 1..Len(loads) : \E e \in AllPipelineErrors : PipelineRejected(i, e)
  \/ UnloadModel
  \/ \E request \in SummarizeRequests : SummarizeCalled(request)
  \/ SummarizeReturns
  \/ \E e \in InferenceErrors : SummarizeRejected(e)

SpecSummarize == InitSummarize /\ [][NextSummarize]_vars

\* C17: summarize limits its input to INPUT_MAX estimated tokens: a text of
\* more tokens is cut to its first INPUT_MAX * 4 characters before the prompt
\* is built, a text within the limit is used as it is, and the inputTokens of
\* every response is at most INPUT_MAX.
C17_InputLimited ==
  (pure.fn = "summarize" /\ "request" \in DOMAIN pure)
    => LET s == pure.original
           text == pure.request.text
       IN /\ IF Len(s) > INPUT_MAX * 4
               THEN text = SubSeq(s, 1, INPUT_MAX * 4)
               ELSE text = s
          /\ IF IncludesT5(pure.modelAtCall)
               THEN /\ StartsWith(pure.invoked.input, TaskPrefix)
                    /\ Len(pure.invoked.input) <= Len(TaskPrefix) + Len(text)
                    /\ Len(s) >= INPUT_MAX
                         => pure.invoked.input = TaskPrefix \o text
               ELSE pure.invoked.input = GptPromptHead \o text \o GptPromptTail
          /\ pure.stage = "done"
               => /\ pure.response.inputTokens = EstimateTokens(text)
                  /\ pure.response.inputTokens <= INPUT_MAX

C17_Witness ==
  /\ pure.fn = "summarize"
  /\ pure.stage = "done"
  /\ Len(pure.original) = INPUT_MAX * 4 + 1
  /\ Len(pure.request.text) = INPUT_MAX * 4
  /\ pure.response.inputTokens = INPUT_MAX
  /\ ~IncludesT5(pure.modelAtCall)

\* C18: the prompt strategy and the post-processing follow the candidate that
\* loaded. With a T5 candidate the summarization pipeline is called with the
\* task-prefixed text and the summary of a response is the result's
\* summary_text; with a GPT-2 candidate the text-generation pipeline is called
\* with a prompt that ends in 'Summary:' and the summary of a response is the
\* generated text with that prompt removed, trimmed.
C18_StrategyFollowsLoadedModel ==
  (pure.fn = "summarize" /\ "request" \in DOMAIN pure)
    => /\ pure.modelAtCall \in {ModelsToTry("llm")[k] : k \in 1..Len(ModelsToTry("llm"))}
       /\ pure.pipe = pure.modelAtCall
       /\ IF pure.modelAtCall = "Xenova/t5-small"
            THEN /\ pure.invoked.task = "summarization"
                 /\ StartsWith(pure.invoked.input, TaskPrefix)
                 /\ pure.stage = "done"
                      => /\ pure.result.field = "summary_text"
                         /\ pure.response.summary = pure.result.text
            ELSE /\ pure.invoked.task = "text-generation"
                 /\ EndsWith(pure.invoked.input, StrSummaryColon)
                 /\ pure.stage = "done"
                      => /\ pure.result.field = "generated_text"
                         /\ \A g \in GeneratedTexts :
                              pure.result.text = pure.invoked.input \o g
                                => pure.response.summary = Trim(g)
                         /\ IndexOf(pure.result.text, pure.invoked.input) < 0
                              => pure.response.summary = Trim(pure.result.text)

C18_Witness ==
  /\ pure.fn = "summarize"
  /\ pure.stage = "done"
  /\ pure.modelAtCall = "Xenova/distilgpt2"
  /\ pure.original = StrHi
  /\ pure.result.text = GptPrompt(StrHi) \o StrACat
  /\ pure.response.summary = <<"A", " ", "c", "a", "t", ".">>

\* C23: the post-processing applied to an inference result is the one for the
\* model that produced it: whatever unloadModel or loadModel does while a
\* summarize is awaiting its pipeline, the family test after the pipeline
\* returns answers as the test before the call did, and the result is read
\* through the field it has (summary_text for T5, generated_text for GPT-2).
C23_PostProcessingMatchesResult ==
  (pure.fn = "summarize" /\ "modelAtReturn" \in DOMAIN pure)
    => /\ IncludesT5(pure.modelAtReturn) = IncludesT5(pure.modelAtCall)
       /\ pure.result.field
            = (IF IncludesT5(pure.modelAtReturn) THEN "summary_text"
               ELSE "generated_text")

\* C24: for a T5 model the min_length passed to the summarization pipeline
\* never exceeds the max_length passed in the same call, for every request and
\* every input length.
C24_MinLengthWithinMaxLength ==
  (pure.fn = "summarize" /\ "invoked" \in DOMAIN pure
     /\ IncludesT5(pure.modelAtCall))
    => pure.invoked.options.min_length <= pure.invoked.options.max_length

(* ------------------ applyOutputGuardrails, applied twice --------------- *)

\* the guardrails applied to the commands of a response joined by newlines
GuardrailsReapplied ==
  /\ pure.fn = "applyOutputGuardrails"
  /\ pure.done
  /\ "again" \notin DOMAIN pure
  /\ pure' = [again |-> ApplyOutputGuardrails(JoinLines(pure.ret))] @@ pure
  /\ UNCHANGED serviceVars

NextIdempotence ==
  \/ GuardrailsApplied
  \/ GuardrailsReapplied

SpecIdempotence == InitGuardrails /\ [][NextIdempotence]_vars

\* C28: applyOutputGuardrails is idempotent: applied to the newline-joined
\* result of applyOutputGuardrails(x) it returns that result again, also when
\* the result is the fallback line.
C28_GuardrailsIdempotent ==
  (pure.fn = "applyOutputGuardrails" /\ "again" \in DOMAIN pure)
    => pure.again = pure.ret

C28_Witness ==
  /\ pure.fn = "applyOutputGuardrails"
  /\ "again" \in DOMAIN pure
  /\ pure.lines = <<LineComment, LineEchoToDo>>
  /\ pure.ret = <<FallbackLine>>
  /\ pure.again = <<FallbackLine>>

(* ---------- the hooks useLLM / useCommand and the two forms ------------ *)

\* One mounted form over its service: SummarizerForm with useLLM over the
\* LLMService, CommandForm with useCommand over the CommandService.  The React
\* state of the hook and the handler calls awaiting a service promise are the
\* fields of pure; a handler's continuation runs in the microtask after the
\* service settles its promise, so it shares the step of that service segment.
\* A click is possible only on a button the last render left enabled.

\* the automatic loadModel calls of the CommandForm effect followed in a run
MaxAutoLoads == 3

DEFAULT_MODEL == "phi-3-mini"

ModelNotLoadedError == [name |-> "Error", message |-> "Model not loaded"]

serviceState == <<service, heldPipeline, currentModel, status, loads, infers,
                  startTime, memoryBefore, now, memory, heldKey, everLoaded, unloadedSince>>

\* the modelKey the hook hands to the service (CommandService.loadModel takes none)
HookModelKey == IF service = "llm" THEN DEFAULT_MODEL ELSE CommandModel

\* useState(...) of the hook at the first render
UseHookState ==
  [fn |-> "form", modelStatus |-> status, isProcessing |-> FALSE, error |-> Null,
   loadCalls |-> <<>>, delayed |-> FALSE, autoLoads |-> 0, retries |-> 0,
   last |-> [op |-> "mount"]]

\* if (!modelStatus.loaded) throw new Error('Model not loaded'), on the
\* modelStatus the callback closed over
HookRejects(closureLoaded) == ~closureLoaded

ProcessingAfterSettleOnlyOnSuccess(outcome) == outcome # "ok"

\* finally { setIsProcessing(false) }
ProcessingAfterSettle(outcome) == FALSE

\* the hook's loadModel up to its await: setError(null), the service's first
\* segment; h is the hook state before the call, by the caller
HookLoadModel(h, by) ==
  /\ ServiceLoadModel(HookModelKey)
  /\ pure' = IF event'.outcome = "started"
               THEN [h EXCEPT !.error = Null,
                              !.loadCalls = Append(@, [by |-> by,
                                                       closureLoaded |-> h.modelStatus.loaded])]
               ELSE [h EXCEPT !.error = Null, !.last = [op |-> by, load |-> "ok"]]

\* the CommandForm effect of lines 39-52 after a render with modelStatus ms
AutoLoadWanted(ms) == service = "cmd" /\ ~ms.loaded /\ ~ms.loading

\* the effects of a render in which modelStatus became ms (h is the state of
\* that render)
RunEffects(h, ms) ==
  IF AutoLoadWanted(ms)
    THEN /\ h.autoLoads < MaxAutoLoads
         /\ HookLoadModel([h EXCEPT !.autoLoads = @ + 1,
                                    !.retries = IF ms.error # Null THEN @ + 1 ELSE @],
                          "autoLoadModel")
    ELSE /\ pure' = h
         /\ event' = [op |-> "render"]
         /\ UNCHANGED serviceState

\* the component mounts: first render, then the effects
Mount ==
  /\ pure.fn = "none"
  /\ RunEffects(UseHookState, status)

\* the 100 ms interval: setModelStatus(service.getStatus()); the effect runs
\* again only if one of its dependencies changed
PollStatus ==
  /\ pure.fn = "form"
  /\ LET h == [pure EXCEPT !.modelStatus = status]
     IN IF \/ status.loaded # pure.modelStatus.loaded
           \/ status.loading # pure.modelStatus.loading
          THEN RunEffects(h, status)
          ELSE /\ pure' = h
               /\ event' = [op |-> "poll"]
               /\ UNCHANGED serviceState

\* SummarizerForm: the Load Model button is rendered while the polled status
\* is neither loaded nor loading
HandleLoadModel ==
  /\ pure.fn = "form"
  /\ service = "llm"
  /\ ~pure.modelStatus.loaded /\ ~pure.modelStatus.loading
  /\ HookLoadModel(pure, "handleLoadModel")

\* the hook's summarize / generateCommands from its guard to the await of the
\* service, the guard passed: setIsProcessing(true), setError(null), the
\* service's first segment; a service that raises at once settles the call
HookInfer(h, by) ==
  /\ ServiceInfer
  /\ pure' = IF event'.outcome = "invoked"
               THEN [h EXCEPT !.isProcessing = TRUE, !.error = Null, !.delayed = FALSE]
               ELSE [h EXCEPT !.isProcessing = ProcessingAfterSettle("raised"),
                              !.error = ErrorToString(event'.raised),
                              !.delayed = FALSE,
                              !.last = [op |-> by, closureLoaded |-> TRUE,
                                        call |-> "raised", raised |-> event'.raised]]

\* a call the hook rejects: nothing of the hook's state is set
HookRejected(h, by, load) ==
  [h EXCEPT !.last = [op |-> by, closureLoaded |-> FALSE, load |-> load,
                      call |-> "raised", raised |-> ModelNotLoadedError]]

\* SummarizerForm.handleSummarize on a click of the enabled Summarize button
HandleSummarize(text) ==
  /\ pure.fn = "form"
  /\ service = "llm"
  /\ Trim(text) # <<>>
  /\ ~pure.isProcessing
  /\ pure.modelStatus.loaded \/ pure.modelStatus.loading
  /\ IF ExceedsInputMax(EstimateTokens(text))
       THEN /\ pure' = [pure EXCEPT !.last = [op |-> "handleSummarize", call |-> "alert"]]
            /\ event' = [op |-> "alert"]
            /\ UNCHANGED serviceState
       ELSE IF ~pure.modelStatus.loaded
              THEN /\ ServiceLoadModel(HookModelKey)
                   /\ pure' = IF event'.outcome = "started"
                                THEN [pure EXCEPT !.error = Null,
                                        !.loadCalls = Append(@, [by |-> "handleSummarize",
                                                                  closureLoaded |-> FALSE])]
                                ELSE HookRejected([pure EXCEPT !.error = Null],
                                                  "handleSummarize", "ok")
              ELSE HookInfer(pure, "handleSummarize")

\* CommandForm.handleGenerate on a click of the enabled button: the hook's
\* guard passes on the same render, then the 300 ms delay is awaited
HandleGenerate ==
  /\ pure.fn = "form"
  /\ service = "cmd"
  /\ ~pure.isProcessing
  /\ pure.modelStatus.loaded /\ ~pure.modelStatus.loading
  /\ ~HookRejects(pure.modelStatus.loaded)
  /\ pure' = [pure EXCEPT !.isProcessing = TRUE, !.error = Null, !.delayed = TRUE]
  /\ event' = [op |-> "handleGenerate"]
  /\ UNCHANGED serviceState

\* the 300 ms timer of generateCommands fires: the service is called
DelayElapsed ==
  /\ pure.fn = "form"
  /\ pure.delayed
  /\ HookInfer(pure, "handleGenerate")

\* the service's loadModel of load call i returns: its caller continues;
\* handleSummarize goes on to the summarize it closed over at the click
LoadSettled(i) ==
  /\ pure.fn = "form"
  /\ ServicePipelineResolved(i)
  /\ LET call == pure.loadCalls[i]
         h == [pure EXCEPT !.loadCalls = RemoveAt(@, i)]
     IN /\ call.by = "handleSummarize" => HookRejects(call.closureLoaded)
        /\ pure' = IF call.by = "handleSummarize"
                     THEN HookRejected(h, call.by, "ok")
                     ELSE [h EXCEPT !.last = [op |-> call.by, load |-> "ok"]]

\* the construction of load call i raises e: the next candidate is awaited,
\* or loadModel raises and the hook's catch sets error and rethrows to the
\* caller's catch
LoadFailed(i, e) ==
  /\ pure.fn = "form"
  /\ ServicePipelineRejected(i, e)
  /\ pure' = IF event'.op = "loadRetry"
               THEN pure
               ELSE [pure EXCEPT !.loadCalls = RemoveAt(@, i),
                                 !.error = ErrorToString(event'.raised),
                                 !.last = [op |-> pure.loadCalls[i].by, load |-> "raised"]]

\* the service's inference call j returns or fails in its post-processing:
\* catch (setError), finally (setIsProcessing(false))
InferSettled(j) ==
  /\ pure.fn = "form"
  /\ ServiceInferResolved(j)
  /\ pure' = [pure EXCEPT !.isProcessing = ProcessingAfterSettle(event'.outcome),
                          !.error = IF event'.outcome = "ok" THEN @
                                    ELSE ErrorToString(event'.raised),
                          !.last = [op |-> "inference", closureLoaded |-> TRUE,
                                    call |-> event'.outcome]]

\* the pipeline of inference call j raises e
InferFailed(j, e) ==
  /\ pure.fn = "form"
  /\ ServiceInferRejected(j, e)
  /\ pure' = [pure EXCEPT !.isProcessing = ProcessingAfterSettle(event'.outcome),
                          !.error = ErrorToString(event'.raised),
                          !.last = [op |-> "inference", closureLoaded |-> TRUE,
                                    call |-> event'.outcome]]

\* the texts typed into the form: a short one and one over INPUT_MAX tokens
FormTexts == {StrHi, LongText(INPUT_MAX * APPROX_CHARS_PER_TOKEN + 1)}

InitForms ==
  /\ \E s \in Services : ServiceInit(s)
  /\ pure = [fn |-> "none"]

NextForms ==
  \/ Mount
  \/ PollStatus
  \/ HandleLoadModel
  \/ \E text \in FormTexts : HandleSummarize(text)
  \/ HandleGenerate
  \/ DelayElapsed
  \/ \E i \in 1..Len(loads) : LoadSettled(i)
  \/ \E i \in 1..Len(loads) : \E e \in AllPipelineErrors : LoadFailed(i, e)
  \/ \E j \in 1..Len(infers) : InferSettled(j)
  \/ \E j \in 1..Len(infers) : \E e \in InferenceErrors : InferFailed(j, e)

SpecForms == InitForms /\ [][NextForms]_vars

(* ------------------ properties of the hooks and forms ------------------ *)

\* C25: when handleSummarize ran with the polled status not loaded and the
\* loadModel it awaited succeeded, the summarize call that follows is not
\* rejected with 'Model not loaded' (it reaches LLMService.summarize).
C25_SummarizeAfterLoadNotRejected ==
  (/\ pure.fn = "form"
   /\ pure.last.op = "handleSummarize"
   /\ "load" \in DOMAIN pure.last
   /\ pure.last.load = "ok")
    => ~(pure.last.call = "raised" /\ pure.last.raised = ModelNotLoadedError)

\* C26: the auto-load effect of CommandForm issues no loadModel call once the
\* status has settled at loaded:false, loading:false with an error.
C26_FailedLoadNotRetried ==
  (pure.fn = "form" /\ service = "cmd") => pure.retries = 0

\* a step in which a call is rejected by the hook with 'Model not loaded'
RejectedByHook ==
  /\ pure.fn = "form"
  /\ event'.op \in {"loadDone", "loadModel"}
  /\ pure'.last # pure.last \/ Len(pure'.loadCalls) < Len(pure.loadCalls)
  /\ "raised" \in DOMAIN pure'.last
  /\ pure'.last.raised = ModelNotLoadedError

\* C27: isProcessing is true exactly while an inference call issued through
\* the hook is in flight (from before the service call, the 300 ms delay of
\* useCommand included, until the call settles by a result or an error), and a
\* call the hook rejects with 'Model not loaded' leaves it as it was.
C27_IsProcessingWhileInFlight ==
  [][pure'.fn = "form"
       => /\ pure'.isProcessing <=> (pure'.delayed \/ infers' # <<>>)
          /\ RejectedByHook => pure'.isProcessing = pure.isProcessing]_vars

\* a call was rejected by the hook while another one, issued on a later render,
\* is in flight and holds isProcessing
C27_Witness ==
  /\ pure.fn = "form"
  /\ event.op = "loadDone"
  /\ "raised" \in DOMAIN pure.last
  /\ pure.last.raised = ModelNotLoadedError
  /\ pure.isProcessing
  /\ infers # <<>>

====
